---- MODULE Spec2Model ----
(***************************************************************************)
(* RefWith2Flags<'a, T> (src/src/ref_with_2_flags.rs): a reference to a T  *)
(* and two booleans packed into one usize.  The model keeps one referenced *)
(* value (its type's alignment, its address, its current content), a few   *)
(* RefWith2Flags instances built over it, and the last call made with its  *)
(* result.  usize is scaled down to WordBits bits.                         *)
(***************************************************************************)
EXTENDS Integers, FiniteSets

VARIABLES obj, val, refs, args, first, last, status

vars == <<obj, val, refs, args, first, last, status>>

(* ----------------------------- bounds ---------------------------------- *)

\* Width of usize in the model (the real one is 32 or 64).
WordBits == 4

\* align_of::<T>() ranges over the powers of two 2^0 .. 2^MaxAlignLog.
MaxAlignLog == 3

\* The referenced value's content ranges over 0 .. MaxData.
MaxData == 1

\* Number of RefWith2Flags instances that can be alive at once.
MaxRefs == 2

(* ------------------------- usize arithmetic ---------------------------- *)

RECURSIVE Pow2(_)
Pow2(n) == IF n = 0 THEN 1 ELSE 2 * Pow2(n - 1)

WordMax == Pow2(WordBits) - 1

Word == 0 .. WordMax

RECURSIVE BitAnd(_, _)
BitAnd(x, y) ==
    IF x = 0 \/ y = 0 THEN 0
    ELSE (x % 2) * (y % 2) + 2 * BitAnd(x \div 2, y \div 2)

RECURSIVE BitOr(_, _)
BitOr(x, y) ==
    IF x = 0 THEN y
    ELSE IF y = 0 THEN x
    ELSE (IF x % 2 = 1 \/ y % 2 = 1 THEN 1 ELSE 0)
         + 2 * BitOr(x \div 2, y \div 2)

\* !x on a usize: every bit of the word flipped.
BitNot(x) == WordMax - x

\* x << n on a usize: bits shifted past the top are lost.
Shl(x, n) == (x * Pow2(n)) % Pow2(WordBits)

\* b as usize
BoolAsUsize(b) == IF b THEN 1 ELSE 0

(* --------------------------- the data model ---------------------------- *)

Aligns == { Pow2(k) : k \in 0 .. MaxAlignLog }

Data == 0 .. MaxData

Slots == 1 .. MaxRefs

\* A slot that holds no RefWith2Flags value.
NoRef == [live |-> FALSE]

\* struct RefWith2Flags { ptr_and_bit: usize, behaves_like: PhantomData }
RefWith2Flags(w) == [live |-> TRUE, ptr_and_bit |-> w]

NoArgs == [set |-> FALSE]

NoResult == [seen |-> FALSE]

Accessors == {"get_ref", "get_flag_a", "get_flag_b"}

(* ------------------------ RefWith2Flags, pure part --------------------- *)

\* assert!(align_of::<T>() % 4 == 0)
AlignOkAddr(align) == obj.addr % 4 = 0
AlignOkEven(align) == align % 2 = 0
AlignOk(align) == align % 4 = 0

\* ptr as *const T as usize | flag_a as usize | ((flag_b as usize) << 1)
PackSwapped(ptr, flag_a, flag_b) ==
    BitOr(BitOr(ptr, BoolAsUsize(flag_b)), Shl(BoolAsUsize(flag_a), 1))
PackShift2(ptr, flag_a, flag_b) ==
    BitOr(BitOr(ptr, BoolAsUsize(flag_a)), Shl(BoolAsUsize(flag_b), 2))
Pack(ptr, flag_a, flag_b) ==
    BitOr(BitOr(ptr, BoolAsUsize(flag_a)), Shl(BoolAsUsize(flag_b), 1))

\* (self.ptr_and_bit & !3) as *const T
GetRefAddrNoMask(w) == w
GetRefAddrMask1(w) == BitAnd(w, BitNot(1))
GetRefAddrNarrow(w) == BitAnd(w, BitNot(3) % Pow2(WordBits - 1))
GetRefAddr(w) == BitAnd(w, BitNot(3))

\* self.ptr_and_bit & 1 != 0
FlagA(w) == BitAnd(w, 1) # 0

\* self.ptr_and_bit & 2 != 0
FlagBAny(w) == BitAnd(w, 3) # 0
FlagB(w) == BitAnd(w, 2) # 0

\* &*ptr: what reading through the pointer yields.  At the referenced
\* value's address it is the value's current content; anywhere else the
\* read is undefined behaviour, which may yield any content or fault.
DerefCached(ptr) ==
    IF first["get_ref"].seen THEN {first["get_ref"].ret.data}
    ELSE IF ptr = obj.addr THEN {val} ELSE Data \cup {-1}
Deref(ptr) == IF ptr = obj.addr THEN {val} ELSE Data \cup {-1}

(* ------------------------------ the state ------------------------------ *)

\* The referenced value: the alignment of its type T and the address it
\* lives at.  A reference is never null and is aligned for its type.
Objects ==
    { o \in [align : Aligns, addr : Word] :
        o.addr # 0 /\ o.addr % o.align = 0 }

NoneSeen == [op \in Accessors |-> NoResult]

Seen(r) == [seen |-> TRUE, ret |-> r]

\* The instance whose accessor results are remembered in `first`.  The
\* operations treat every slot alike, so one slot stands for all.
Watched == CHOOSE s \in Slots : \A t \in Slots : s <= t

\* The first result each accessor gave on the watched instance.
Record(s, op, r) ==
    IF s = Watched /\ ~first[op].seen
    THEN [first EXCEPT ![op] = Seen(r)]
    ELSE first

\* The shape of the state.  obj: the referenced value; val: its content;
\* refs: the instances; args: what each live instance was built from;
\* first: the watched instance's first results; last: the last call and its
\* result; status: whether an assert! has panicked.
TypeOK ==
    /\ obj \in [align : Aligns, addr : Word]
    /\ val \in Data
    /\ \A s \in Slots :
         /\ refs[s].live \in BOOLEAN
         /\ refs[s].live => refs[s].ptr_and_bit \in Word
         /\ args[s].set = refs[s].live
    /\ \A op \in Accessors : first[op].seen \in BOOLEAN
    /\ last.op \in {"none", "new", "drop", "mutate"} \cup Accessors
    /\ status \in {"running", "panicked"}

Init ==
    /\ obj \in Objects
    /\ val \in Data
    /\ refs = [s \in Slots |-> NoRef]
    /\ args = [s \in Slots |-> NoArgs]
    /\ first = NoneSeen
    /\ last = [op |-> "none"]
    /\ status = "running"

(* ----------------------------- operations ------------------------------ *)

\* RefWith2Flags { ptr_and_bit: ..., behaves_like: PhantomData } returned
\* into slot s.
Construct(s, flag_a, flag_b) ==
    /\ refs' = [refs EXCEPT
                  ![s] = RefWith2Flags(Pack(obj.addr, flag_a, flag_b))]
    /\ args' = [args EXCEPT
                  ![s] = [set |-> TRUE, ptr |-> obj.addr,
                          flag_a |-> flag_a, flag_b |-> flag_b]]
    /\ last' = [op |-> "new", slot |-> s, flag_a |-> flag_a,
                flag_b |-> flag_b, ret |-> "ok"]

\* RefWith2Flags::new(ptr, flag_a, flag_b) with the result bound to slot s.
\* A failed assert! panics: nothing is returned and the program ends.
New(s, flag_a, flag_b) ==
    /\ status = "running"
    /\ ~refs[s].live
    /\ IF AlignOk(obj.align)
       THEN /\ Construct(s, flag_a, flag_b)
            /\ status' = status
       ELSE /\ last' = [op |-> "new", slot |-> s, flag_a |-> flag_a,
                        flag_b |-> flag_b, ret |-> "panic"]
            /\ status' = "panicked"
            /\ UNCHANGED <<refs, args>>
    /\ UNCHANGED <<obj, val, first>>

\* get_ref(&self): the decoded pointer and what reading through it yields.
GetRef(s) ==
    /\ status = "running"
    /\ refs[s].live
    /\ LET ptr == GetRefAddr(refs[s].ptr_and_bit) IN
         \E d \in Deref(ptr) :
           LET r == [ptr |-> ptr, data |-> d] IN
             /\ last' = [op |-> "get_ref", slot |-> s, ret |-> r]
             /\ first' = Record(s, "get_ref", r)
    /\ UNCHANGED <<obj, val, refs, args, status>>

\* get_flag_a(&self)
GetFlagAClears(s) ==
    /\ status = "running"
    /\ refs[s].live
    /\ LET w == refs[s].ptr_and_bit
           r == FlagA(w) IN
         /\ last' = [op |-> "get_flag_a", slot |-> s, ret |-> r]
         /\ first' = Record(s, "get_flag_a", r)
         /\ refs' = [refs EXCEPT ![s] = RefWith2Flags(BitAnd(w, BitNot(1)))]
    /\ UNCHANGED <<obj, val, args, status>>
GetFlagA(s) ==
    /\ status = "running"
    /\ refs[s].live
    /\ LET r == FlagA(refs[s].ptr_and_bit) IN
         /\ last' = [op |-> "get_flag_a", slot |-> s, ret |-> r]
         /\ first' = Record(s, "get_flag_a", r)
    /\ UNCHANGED <<obj, val, refs, args, status>>

\* get_flag_b(&self)
GetFlagB(s) ==
    /\ status = "running"
    /\ refs[s].live
    /\ LET r == FlagB(refs[s].ptr_and_bit) IN
         /\ last' = [op |-> "get_flag_b", slot |-> s, ret |-> r]
         /\ first' = Record(s, "get_flag_b", r)
    /\ UNCHANGED <<obj, val, refs, args, status>>

\* The instance in slot s goes out of scope.  There is no Drop impl: only
\* the one word of the instance goes away.
DropOwning(s) ==
    /\ status = "running"
    /\ refs[s].live
    /\ refs' = [refs EXCEPT ![s] = NoRef]
    /\ args' = [args EXCEPT ![s] = NoArgs]
    /\ first' = IF s = Watched THEN NoneSeen ELSE first
    /\ last' = [op |-> "drop", slot |-> s]
    /\ val' \in Data \ {val}
    /\ UNCHANGED <<obj, status>>
Drop(s) ==
    /\ status = "running"
    /\ refs[s].live
    /\ refs' = [refs EXCEPT ![s] = NoRef]
    /\ args' = [args EXCEPT ![s] = NoArgs]
    /\ first' = IF s = Watched THEN NoneSeen ELSE first
    /\ last' = [op |-> "drop", slot |-> s]
    /\ UNCHANGED <<obj, val, status>>

\* The referenced value is changed by its owner, outside RefWith2Flags
\* (a T with interior mutability can change behind a shared reference).
Mutate(v) ==
    /\ status = "running"
    /\ v # val
    /\ val' = v
    /\ last' = [op |-> "mutate"]
    /\ UNCHANGED <<obj, refs, args, first, status>>

Next ==
    \/ \E s \in Slots, flag_a \in BOOLEAN, flag_b \in BOOLEAN :
         New(s, flag_a, flag_b)
    \/ \E s \in Slots : GetRef(s)
    \/ \E s \in Slots : GetFlagA(s)
    \/ \E s \in Slots : GetFlagB(s)
    \/ \E s \in Slots : Drop(s)
    \/ \E v \in Data : Mutate(v)

Spec == Init /\ [][Next]_vars

(* ------------------------------ properties ----------------------------- *)

Live(s) == refs[s].live

WordOf(s) == refs[s].ptr_and_bit

\* The last step was a call of accessor op on a live instance.
Returned(op) == last.op = op /\ Live(last.slot)

\* C1: round trip.  For a type whose alignment is a multiple of 4 and a
\* value at any address aligned for it, what new(r, a, b) built decodes to
\* what was encoded: get_ref() returns the address r, get_flag_a() returns
\* a and get_flag_b() returns b.
C1_RoundTrip ==
    /\ Returned("get_ref") =>
         /\ last.ret.ptr = args[last.slot].ptr
         /\ last.ret.ptr = obj.addr
         /\ obj.align % 4 = 0
    /\ Returned("get_flag_a") => last.ret = args[last.slot].flag_a
    /\ Returned("get_flag_b") => last.ret = args[last.slot].flag_b

\* The demo's case: built with (true, false), get_ref was called and
\* get_flag_b has just returned false.
C1_Witness ==
    /\ Returned("get_flag_b")
    /\ last.slot = Watched
    /\ args[Watched].flag_a /\ ~args[Watched].flag_b
    /\ last.ret = FALSE
    /\ first["get_ref"].seen /\ first["get_ref"].ret.ptr = obj.addr
    /\ first["get_flag_a"].seen /\ first["get_flag_a"].ret = TRUE

\* C2: alignment rejection.  Every call of new for a type whose alignment
\* is not a multiple of 4 panics, and it produces no value: no slot changes
\* and the slot the result was meant for stays empty.
C2_AlignmentRejection ==
    [][ (last'.op = "new" /\ obj.align % 4 # 0) =>
          /\ last'.ret = "panic"
          /\ status' = "panicked"
          /\ refs' = refs
          /\ \A s \in Slots : ~refs'[s].live ]_vars

C2_Witness ==
    /\ status = "panicked"
    /\ last.op = "new" /\ last.ret = "panic"
    /\ obj.align = 2
    /\ \A s \in Slots : ~Live(s)

\* C3: flag independence.  Over one address every flag pair decodes to
\* itself, and two instances that differ in one flag decode the same other
\* flag and the same address.
C3_FlagIndependence ==
    \A s \in Slots, t \in Slots :
      (Live(s) /\ Live(t)) =>
        /\ FlagA(WordOf(s)) = args[s].flag_a
        /\ FlagB(WordOf(s)) = args[s].flag_b
        /\ GetRefAddr(WordOf(s)) = GetRefAddr(WordOf(t))
        /\ (args[s].flag_b = args[t].flag_b) =>
              FlagB(WordOf(s)) = FlagB(WordOf(t))
        /\ (args[s].flag_a = args[t].flag_a) =>
              FlagA(WordOf(s)) = FlagA(WordOf(t))

\* Two live instances over the same address that differ in flag A only.
C3_Witness ==
    \E s \in Slots, t \in Slots :
      /\ Live(s) /\ Live(t)
      /\ args[s].flag_a /\ ~args[t].flag_a
      /\ args[s].flag_b /\ args[t].flag_b
      /\ Returned("get_flag_b") /\ last.slot = t

\* C4: no copy.  Whatever get_ref() returns reads the referenced value's
\* current content, also after the value was changed from outside.
C4_NoCopy ==
    Returned("get_ref") => last.ret.data = val

\* get_ref on one instance read one content earlier and reads another now.
C4_Witness ==
    /\ Returned("get_ref")
    /\ last.slot = Watched
    /\ first["get_ref"].seen
    /\ first["get_ref"].ret.data # last.ret.data

InstanceOps == {"new", "drop"} \cup Accessors

\* C5: instance isolation and non-ownership.  A construction, an accessor
\* call or a destruction of one instance leaves every other instance's
\* packed word and the referenced value as they were, and after an
\* instance is built or destroyed every live instance decodes its own flag
\* pair and the shared address.
C5_Isolation ==
    [][ (last'.op \in InstanceOps) =>
          /\ \A t \in Slots \ {last'.slot} : refs'[t] = refs[t]
          /\ val' = val
          /\ obj' = obj
          /\ (last'.op \in {"new", "drop"}) =>
               \A t \in Slots : refs'[t].live =>
                 /\ FlagA(refs'[t].ptr_and_bit) = args'[t].flag_a
                 /\ FlagB(refs'[t].ptr_and_bit) = args'[t].flag_b
                 /\ GetRefAddr(refs'[t].ptr_and_bit) = obj.addr ]_vars

\* Two instances with different flag pairs are alive, the second one just
\* built over the value the first one refers to.
C5_Witness ==
    \E s \in Slots, t \in Slots :
      /\ Live(s) /\ Live(t)
      /\ <<args[s].flag_a, args[s].flag_b>> # <<args[t].flag_a, args[t].flag_b>>
      /\ last.op = "new" /\ last.slot = t

\* What an accessor's result says about the instance: the address for
\* get_ref, the boolean for the flags.
Answer(op, r) == IF op = "get_ref" THEN r.ptr ELSE r

\* C6: immutability.  An accessor call changes no packed word, and on one
\* instance an accessor returns what it returned the first time, whatever
\* was called in between; a live instance's word never changes.
C6_Immutable ==
    [][ /\ (last'.op \in Accessors) =>
             /\ refs' = refs
             /\ (last'.slot = Watched /\ first[last'.op].seen) =>
                   Answer(last'.op, last'.ret)
                     = Answer(last'.op, first[last'.op].ret)
        /\ \A s \in Slots :
             (refs[s].live /\ refs'[s].live) => refs'[s] = refs[s] ]_vars

\* All three accessors were called on one instance, and get_ref was called
\* at least twice (it read two different contents).
C6_Witness ==
    /\ Returned("get_ref")
    /\ last.slot = Watched
    /\ first["get_flag_a"].seen
    /\ first["get_flag_b"].seen
    /\ first["get_ref"].seen
    /\ first["get_ref"].ret.data # last.ret.data
    /\ first["get_ref"].ret.ptr = last.ret.ptr

\* C7: word layout.  The packed word is address + (a ? 1 : 0) + (b ? 2 : 0):
\* bit 0 is flag A, bit 1 is flag B, the bits from bit 2 up are the
\* address's.
C7_WordLayout ==
    \A s \in Slots :
      Live(s) =>
        /\ args[s].ptr % 4 = 0
        /\ WordOf(s) = args[s].ptr + BoolAsUsize(args[s].flag_a)
                                   + 2 * BoolAsUsize(args[s].flag_b)
        /\ (WordOf(s) % 2 = 1) = args[s].flag_a
        /\ ((WordOf(s) \div 2) % 2 = 1) = args[s].flag_b
        /\ WordOf(s) \div 4 = args[s].ptr \div 4

C7_Witness ==
    \E s \in Slots :
      /\ Live(s)
      /\ ~args[s].flag_a /\ args[s].flag_b
      /\ WordOf(s) = obj.addr + 2
      /\ last.op = "new" /\ last.slot = s

\* Decoding the encoding of <<a, b>> over the address ptr.
Decoded(ptr, a, b) ==
    <<FlagA(Pack(ptr, a, b)), FlagB(Pack(ptr, a, b))>>

\* C8: the alignment precondition is necessary.  Whenever the referenced
\* value sits at an address whose two low bits are not both 0 (its type
\* then has alignment 1 or 2, and new refuses it), the encoding of new
\* followed by the decoding of get_ref gives, for every flag pair, another
\* address than the one encoded, and some flag pair does not decode to
\* itself.
C8_MisalignedCorrupts ==
    obj.addr % 4 # 0 =>
      /\ \A a \in BOOLEAN, b \in BOOLEAN :
           GetRefAddr(Pack(obj.addr, a, b)) # obj.addr
      /\ \E a \in BOOLEAN, b \in BOOLEAN : Decoded(obj.addr, a, b) # <<a, b>>

\* new was called over an odd address and refused it; there the pair
\* (false, false) would decode as flag A set and get_ref would return the
\* address below.
C8_Witness ==
    /\ obj.addr % 2 = 1
    /\ last.op = "new" /\ last.ret = "panic"
    /\ ~last.flag_a /\ ~last.flag_b
    /\ Decoded(obj.addr, FALSE, FALSE)[1] = TRUE
    /\ GetRefAddr(Pack(obj.addr, FALSE, FALSE)) < obj.addr

\* C9: new succeeds exactly when the alignment of T is a multiple of 4,
\* whatever the address and the flags.
C9_AlignmentOnly ==
    last.op = "new" =>
      /\ (last.ret = "ok") = (obj.align % 4 = 0)
      /\ (last.ret = "panic") = (obj.align % 4 # 0)
      /\ (last.ret = "ok") = (status = "running" /\ Live(last.slot))
      /\ (last.ret = "panic") = (status = "panicked")

\* new panicked for a type of alignment 1 or 2 over an address that is a
\* multiple of 4.
C9_Witness ==
    /\ last.op = "new" /\ last.ret = "panic"
    /\ obj.align \in {1, 2}
    /\ obj.addr % 4 = 0
    /\ last.flag_a /\ last.flag_b

\* C10: packing never overflows.  For every address an instance is built
\* over, up to the highest multiple of 4 of the word, the address plus the
\* flag bits fits the word, the packed word is a word, and masking it
\* returns the address, high-order bits included.
C10_NoOverflow ==
    /\ \A s \in Slots : Live(s) =>
         /\ args[s].ptr + BoolAsUsize(args[s].flag_a)
                        + 2 * BoolAsUsize(args[s].flag_b) <= WordMax
         /\ WordOf(s) \in Word
         /\ WordOf(s) >= args[s].ptr
         /\ GetRefAddr(WordOf(s)) = args[s].ptr
    /\ Returned("get_ref") =>
         last.ret.ptr \div 4 = args[last.slot].ptr \div 4

\* The highest address with both flags set fills the word, and get_ref
\* has returned the address.
C10_Witness ==
    /\ obj.addr = WordMax - 3
    /\ Returned("get_ref")
    /\ args[last.slot].flag_a /\ args[last.slot].flag_b
    /\ WordOf(last.slot) = WordMax
    /\ last.ret.ptr = WordMax - 3

====
